---- MODULE Spec2Model ----
(***************************************************************************)
(* Model of chatgpt_chrome.py: the manual command parser, the decoder of   *)
(* the model's reply, the action executor and the interactive loop of      *)
(* main().                                                                 *)
(*                                                                         *)
(* Text is a sequence of pieces: a piece is one whitespace character " "   *)
(* or one maximal run of non-whitespace characters (a token).  Splitting   *)
(* and joining are therefore real conversions: "click  a  b" and the       *)
(* selector "a b" are different values.                                    *)
(***************************************************************************)
EXTENDS Integers, Sequences, FiniteSets, TLC

\* Largest number of tokens on an input line.
MaxTokens == 3
\* Largest length of the "actions" array in a model reply.
MaxActions == 2

----------------------------------------------------------------------------
(* Python values *)

\* None as returned by dict.get for an absent text field.
None == <<"<None>">>
\* None as the value of an absent "type" tag.
NoneTag == "None"
\* dict.get(k, default)
Get(d, k, default) == IF k \in DOMAIN d THEN d[k] ELSE default
\* truth value of a text field: `not url` holds for None and for "".
Truthy(v) == v \notin {None, <<>>}
\* A JSON array element that is not an object has no .get method.
IsDict(a) == "scalar" \notin DOMAIN a
\* The empty dict {} returned for a blank line.
EmptyDict == [k \in {} |-> <<>>]

----------------------------------------------------------------------------
(* str.split / str.join *)

IsWord(p) == p # " "
\* line.strip().split(): the tokens, whitespace runs dropped.
Split(line) == SelectSeq(line, IsWord)

RECURSIVE Join(_)
\* " ".join(parts)
Join(parts) ==
    IF parts = <<>> THEN <<>>
    ELSE IF Len(parts) = 1 THEN <<parts[1]>>
    ELSE <<parts[1], " ">> \o Join(Tail(parts))

\* int(token): the tokens that int() accepts, with their values.
IsInt(tok) == tok \in {"5", "-5"}
IntOf(tok) == IF tok = "5" THEN 5 ELSE 0 - 5

----------------------------------------------------------------------------
(* parse_manual_command *)

\* Result of a call: the exception raised ("" when none) and the value.
Ret(v) == [exc |-> "", ret |-> v]
Raise(e) == [exc |-> e, ret |-> EmptyDict]

\* Variant: the unrecognized line is carried with its whitespace normalised.
UnknownCommandNormalised(line) ==
    Ret([type |-> "unknown", raw |-> Join(Split(line))])

\* The last return: the command is not recognized; it carries the line.
UnknownCommand(line) == Ret([type |-> "unknown", raw |-> line])

\* Variant: the selector takes every token but the last, as for click.
TypeCommandGreedy(parts) ==
    Ret([type |-> "type", selector |-> Join(SubSeq(parts, 2, Len(parts) - 1)),
         text |-> <<parts[Len(parts)]>>])

\* {"type": "type", "selector": parts[1], "text": " ".join(parts[2:])}
TypeCommand(parts) ==
    Ret([type |-> "type", selector |-> <<parts[2]>>,
         text |-> Join(Tail(Tail(parts)))])

\* Variant: a token that is not an integer gives a wait of 0 milliseconds.
WaitCommandDefaultZero(tok) ==
    Ret([type |-> "wait", ms |-> IF IsInt(tok) THEN IntOf(tok) ELSE 0])

\* {"type": "wait", "ms": int(parts[1])}: int() raises ValueError on a token
\* that is not an integer.
WaitCommand(tok) ==
    IF IsInt(tok)
    THEN Ret([type |-> "wait", ms |-> IntOf(tok)])
    ELSE Raise("ValueError: invalid literal for int()")

parse_manual_command(line) ==
    LET parts == Split(line)
        n == Len(parts)
        cmd == parts[1]
    IN  IF parts = <<>> THEN Ret(EmptyDict)
        ELSE IF cmd = "open" /\ n >= 2
            THEN Ret([type |-> "open", url |-> <<parts[2]>>])
        ELSE IF cmd = "click" /\ n >= 2
            THEN Ret([type |-> "click", selector |-> Join(Tail(parts))])
        ELSE IF cmd = "type" /\ n >= 3
            THEN TypeCommand(parts)
        ELSE IF cmd = "wait" /\ n >= 2
            THEN WaitCommand(parts[2])
        ELSE IF cmd = "screenshot" /\ n >= 2
            THEN Ret([type |-> "screenshot", path |-> <<parts[2]>>])
        ELSE IF cmd = "info"
            THEN Ret([type |-> "info"])
        ELSE IF cmd = "chat" /\ n >= 2
            THEN Ret([type |-> "chat", instruction |-> Join(Tail(parts))])
        ELSE IF cmd \in {"quit", "exit"}
            THEN Ret([type |-> "quit"])
        ELSE UnknownCommand(line)

----------------------------------------------------------------------------
(* Input lines *)

Heads == {"open", "click", "type", "wait", "screenshot", "info", "chat",
          "quit", "exit", "foo"}
Args == {"u1", "5"}

RECURSIVE ArgLists(_)
ArgLists(n) ==
    IF n = 0 THEN {<<>>}
    ELSE LET shorter == ArgLists(n - 1)
         IN  shorter \cup {Append(s, a) : s \in {t \in shorter : Len(t) = n - 1},
                                          a \in Args}

\* The instruction of a chat line is opaque to the program: a few of them.
Instructions == {<<>>, <<"u1">>, <<"u1", "5">>}

TokenLists ==
    {<<>>}
    \cup {<<h>> \o r : h \in Heads \ {"chat"}, r \in ArgLists(MaxTokens - 1)}
    \cup {<<"chat">> \o r : r \in Instructions}

RECURSIVE Loose(_)
\* The tokens, each preceded by two spaces.
Loose(toks) == IF toks = <<>> THEN <<>>
               ELSE <<" ", " ", Head(toks)>> \o Loose(Tail(toks))

\* A few more lines: a text of two tokens, a negative duration, one more
\* url.
ExtraTokenLists ==
    { <<"type", "u1", "5", "u1">>, <<"wait", "-5">>, <<"open", "u2">> }

\* What input() can return: the tokens single-spaced, or with leading,
\* doubled and trailing whitespace.
Lines ==
    LET lists == TokenLists \cup ExtraTokenLists
    IN  {Join(t) : t \in lists} \cup {Loose(t) \o <<" ">> : t \in lists}

----------------------------------------------------------------------------
(* Model replies: the text returned by call_openai, by what json.loads    *)
(* makes of it.                                                           *)

\* Elements the model can put in the "actions" array.
ActionElems ==
    { [type |-> "open", url |-> <<"u1">>],
      [type |-> "open"],
      [type |-> "click", selector |-> <<"s">>],
      [type |-> "click"],
      [type |-> "type", text |-> <<"t">>],
      [type |-> "wait", ms |-> 5],
      [type |-> "info"],
      [type |-> "quit"],
      [scalar |-> 7] }

RECURSIVE ActionLists(_)
ActionLists(n) ==
    IF n = 0 THEN {<<>>}
    ELSE LET shorter == ActionLists(n - 1)
         IN  shorter \cup {Append(s, a) : s \in {t \in shorter : Len(t) = n - 1},
                                          a \in ActionElems}

\* kind: what json.loads yields ("notjson" when it raises JSONDecodeError);
\* for an object, whether it has the key "actions", whether that value is
\* a list, and the list's elements.
Raw(kind, hasActions, isList, items) ==
    [kind |-> kind, hasActions |-> hasActions, isList |-> isList, items |-> items]
NoRaw == Raw("none", FALSE, FALSE, <<>>)

\* A few more replies: a failing action with actions before and after it,
\* the two action shapes that ActionElems leaves out, and waits with a
\* negative and with a missing duration.
ExtraReplies ==
    { <<[type |-> "open", url |-> <<"u1">>], [type |-> "quit"],
        [type |-> "click", selector |-> <<"s">>]>>,
      <<[type |-> "click", selector |-> <<"s">>], [type |-> "wait", ms |-> 5],
        [type |-> "open", url |-> <<"u1">>]>>,
      <<[type |-> "info"], [type |-> "click"], [type |-> "wait", ms |-> 5]>>,
      <<[type |-> "type", selector |-> <<"s">>, text |-> <<"t">>],
        [type |-> "screenshot"]>>,
      <<[type |-> "screenshot", path |-> <<"p.png">>],
        [type |-> "type", selector |-> <<"s">>]>>,
      <<[type |-> "wait", ms |-> 0 - 5]>>,
      <<[type |-> "wait"]>>,
      <<[type |-> "exit"]>>,
      <<[type |-> "open", url |-> <<"u1">>],
        [type |-> "chat", instruction |-> <<"u1">>]>>,
      <<[type |-> "unknown", raw |-> <<"foo">>],
        [type |-> "open", url |-> <<"u1">>]>> }

RawTexts ==
    { Raw("notjson", FALSE, FALSE, <<>>),
      Raw("scalar", FALSE, FALSE, <<>>),
      Raw("array", FALSE, FALSE, <<>>),
      Raw("object", FALSE, FALSE, <<>>),
      Raw("object", TRUE, FALSE, <<>>) }
    \cup {Raw("object", TRUE, TRUE, l) : l \in ActionLists(MaxActions) \cup ExtraReplies}

SchemaViolation == "ValueError: JSON must include an 'actions' array"
MalformedOutput == "ValueError: Model output was not valid JSON"
NoGetAttribute == "AttributeError: object has no attribute 'get'"

\* Variant: only the first element of the array is returned.
extract_actions_first(raw_text) ==
    IF raw_text.kind = "notjson" THEN [exc |-> MalformedOutput, ret |-> <<>>]
    ELSE IF raw_text.kind # "object" THEN [exc |-> NoGetAttribute, ret |-> <<>>]
    ELSE IF ~(raw_text.hasActions /\ raw_text.isList)
        THEN [exc |-> SchemaViolation, ret |-> <<>>]
    ELSE [exc |-> "",
          ret |-> IF raw_text.items = <<>> THEN <<>> ELSE <<raw_text.items[1]>>]

extract_actions(raw_text) ==
    IF raw_text.kind = "notjson" THEN [exc |-> MalformedOutput, ret |-> <<>>]
    ELSE IF raw_text.kind # "object" THEN [exc |-> NoGetAttribute, ret |-> <<>>]
    ELSE IF ~(raw_text.hasActions /\ raw_text.isList)
        THEN [exc |-> SchemaViolation, ret |-> <<>>]
    ELSE [exc |-> "", ret |-> raw_text.items]

----------------------------------------------------------------------------
(* The page and the action executor *)

StartUrl == <<"https://example.com">>
DefaultPath == <<"screenshot.png">>
PlaywrightError == "playwright.Error"

\* One call on the page: the method, its text arguments, its integer
\* argument, and whether it returned (ok) or raised.
Call(op, a, b, ms, ok) == [op |-> op, a |-> a, b |-> b, ms |-> ms, ok |-> ok]

MutatingOps == {"goto", "click", "fill", "wait_for_timeout", "screenshot"}

\* Executor state: page calls so far, lines printed so far, the page's
\* url, and the exception that stopped the loop ("" while running).
ExecState(ops, out, url) == [ops |-> ops, out |-> out, url |-> url, err |-> ""]

\* Variant: a call that returned is issued a second time.
InvokeTwice(st, op, a, b, ms, fails) ==
    [st EXCEPT !.ops = IF fails THEN Append(@, Call(op, a, b, ms, FALSE))
                       ELSE @ \o <<Call(op, a, b, ms, TRUE), Call(op, a, b, ms, TRUE)>>,
               !.err = IF fails THEN PlaywrightError ELSE "",
               !.url = IF op = "goto" /\ ~fails THEN a ELSE @]

\* A page method is called; the browser makes it raise when `fails`.
Invoke(st, op, a, b, ms, fails) ==
    [st EXCEPT !.ops = Append(@, Call(op, a, b, ms, ~fails)),
               !.err = IF fails THEN PlaywrightError ELSE "",
               !.url = IF op = "goto" /\ ~fails THEN a ELSE @]

Fail(st, e) == [st EXCEPT !.err = e]

PageTitle(url) == <<"title-of">> \o url
TitleLine(url) == [kind |-> "Title", text |-> PageTitle(url)]
UrlLine(url) == [kind |-> "URL", text |-> url]

\* Variant: an unrecognized type is passed over without an exception.
UnknownTypeIgnored(st, action_type) == st

\* The else branch: raise ValueError(f"Unknown action type: {action_type}").
UnknownType(st, action_type) ==
    Fail(st, "ValueError: Unknown action type: " \o action_type)

\* The body of the for loop of run_actions for one action.
RunOne(st, action, fails) ==
    IF ~IsDict(action) THEN Fail(st, NoGetAttribute)
    ELSE LET action_type == Get(action, "type", NoneTag) IN
      IF action_type = "open" THEN
          LET url == Get(action, "url", None) IN
          IF ~Truthy(url) THEN Fail(st, "ValueError: open action requires url")
          ELSE Invoke(st, "goto", url, <<>>, 0, fails)
      ELSE IF action_type = "click" THEN
          LET selector == Get(action, "selector", None) IN
          IF ~Truthy(selector)
          THEN Fail(st, "ValueError: click action requires selector")
          ELSE Invoke(st, "click", selector, <<>>, 0, fails)
      ELSE IF action_type = "type" THEN
          LET selector == Get(action, "selector", None)
              text == Get(action, "text", <<>>) IN
          IF ~Truthy(selector)
          THEN Fail(st, "ValueError: type action requires selector")
          ELSE Invoke(st, "fill", selector, text, 0, fails)
      ELSE IF action_type = "wait" THEN
          Invoke(st, "wait_for_timeout", <<>>, <<>>, Get(action, "ms", 0), fails)
      ELSE IF action_type = "screenshot" THEN
          Invoke(st, "screenshot", Get(action, "path", DefaultPath), <<>>, 0, fails)
      ELSE IF action_type = "info" THEN
          LET t == Invoke(st, "title", <<>>, <<>>, 0, fails) IN
          IF fails THEN t
          ELSE LET u == Invoke([t EXCEPT !.out = Append(@, TitleLine(st.url))],
                               "url", <<>>, <<>>, 0, FALSE)
               IN  [u EXCEPT !.out = Append(@, UrlLine(st.url))]
      ELSE UnknownType(st, action_type)

RECURSIVE RunFromSkipping(_, _, _, _)
\* Variant: a failing action is skipped and the loop goes on.
RunFromSkipping(actions, i, failAt, st) ==
    IF i > Len(actions) THEN st
    ELSE LET n == RunOne([st EXCEPT !.err = ""], actions[i], i = failAt)
         IN  RunFromSkipping(actions, i + 1, failAt,
                             [n EXCEPT !.err = IF st.err # "" THEN st.err ELSE @])

RECURSIVE RunFrom(_, _, _, _)
\* The for loop from position i on; it ends at the first exception.
RunFrom(actions, i, failAt, st) ==
    IF i > Len(actions) \/ st.err # "" THEN st
    ELSE RunFrom(actions, i + 1, failAt, RunOne(st, actions[i], i = failAt))

\* run_actions(page, actions); failAt is the position whose page call the
\* browser makes raise (0: none does).
run_actions(st, actions, failAt) == RunFrom(actions, 1, failAt, st)

----------------------------------------------------------------------------
(* get_page_context, build_prompt *)

\* The body text is kept as runs of equal characters: ch is the character
\* and n the number of repetitions; the run "\r\n" is n CRLF pairs, two
\* characters each.
TextRun(ch, n) == [ch |-> ch, n |-> n]
CharsOf(run) == IF run.ch = "\r\n" THEN 2 * run.n ELSE run.n

RECURSIVE CharLen(_)
\* len(text)
CharLen(t) == IF t = <<>> THEN 0 ELSE CharsOf(Head(t)) + CharLen(Tail(t))

IsSpaceRun(run) == run.ch \in {" ", "\n", "\r\n"}

RECURSIVE StripLeft(_)
StripLeft(t) == IF t # <<>> /\ IsSpaceRun(Head(t)) THEN StripLeft(Tail(t)) ELSE t

RECURSIVE StripRight(_)
StripRight(t) ==
    IF t # <<>> /\ IsSpaceRun(t[Len(t)])
    THEN StripRight(SubSeq(t, 1, Len(t) - 1)) ELSE t

\* text.strip()
Strip(t) == StripRight(StripLeft(t))

\* text.replace("\r\n", "\n")
ReplaceCrlf(t) ==
    [i \in DOMAIN t |-> IF t[i].ch = "\r\n" THEN TextRun("\n", t[i].n) ELSE t[i]]

RECURSIVE Take(_, _)
\* text[:k]
Take(t, k) ==
    IF k = 0 \/ t = <<>> THEN <<>>
    ELSE IF CharsOf(Head(t)) <= k
        THEN <<Head(t)>> \o Take(Tail(t), k - CharsOf(Head(t)))
    ELSE <<TextRun(Head(t).ch, k)>>

BodyLimit == 5000
TruncationMarker == <<TextRun("\n", 1), TextRun(".", 3)>>

\* Variant: the length is measured before CRLF is replaced.
TrimBodyMeasuredFirst(body_text) ==
    LET stripped == Strip(body_text) IN
    IF CharLen(stripped) > BodyLimit
    THEN Take(ReplaceCrlf(stripped), BodyLimit) \o TruncationMarker
    ELSE ReplaceCrlf(stripped)

\* Lines 94-96 of get_page_context.
TrimBody(body_text) ==
    LET normalised == ReplaceCrlf(Strip(body_text)) IN
    IF CharLen(normalised) > BodyLimit
    THEN Take(normalised, BodyLimit) \o TruncationMarker
    ELSE normalised

\* What page.inner_text("body") returns on the pages of the model.
PageBody(url) ==
    IF url = StartUrl
        THEN <<TextRun(" ", 2), TextRun("x", 5000), TextRun(" ", 1)>>
    ELSE IF url = <<"u1">>
        THEN <<TextRun("x", 4999), TextRun("\r\n", 1), TextRun("x", 2)>>
    ELSE IF url = <<"5">>
        THEN <<TextRun("x", 4998), TextRun("\r\n", 1), TextRun("x", 1)>>
    ELSE <<TextRun("x", 100)>>
NoContext == [url |-> <<>>, title |-> <<>>, body |-> <<>>]

\* The three reads of get_page_context, in the order the code makes them.
ContextCalls(titleFails, bodyFails) ==
    << Call("title", <<>>, <<>>, 0, ~titleFails),
       Call("inner_text", <<"body">>, <<>>, 0, ~bodyFails),
       Call("url", <<>>, <<>>, 0, TRUE) >>

get_page_context(url, titleFails, bodyFails) ==
    [url |-> url,
     title |-> IF titleFails THEN <<>> ELSE PageTitle(url),
     body |-> TrimBody(IF bodyFails THEN <<>> ELSE PageBody(url))]

SystemMessage == <<"You are an automation planner for Chromium. ...">>

build_prompt(instruction, page_context) ==
    << [role |-> "system", content |-> SystemMessage],
       [role |-> "user",
        content |-> <<"URL: ">> \o page_context.url \o <<"\n", "Title: ">>
                    \o page_context.title \o <<"\n", "Body (trimmed):", "\n">>
                    \o page_context.body \o <<"\n\nInstruction: ">>
                    \o instruction] >>

----------------------------------------------------------------------------
(* main *)

VARIABLES
    pc,                 \* "launch", "input", "call_openai", "loop_end", "exited"
    exitCause,          \* "", "quit", "eof", "crash"
    browserClosed,      \* browser.close() has run
    playwrightStopped,  \* the with block of sync_playwright() has been left
    apiKey,             \* OPENAI_API_KEY is set
    pageUrl,            \* page.url
    line,               \* the line read in this iteration
    command,            \* parse_manual_command(line)
    context,            \* get_page_context(page) of this chat turn
    messages,           \* build_prompt(...) of this chat turn
    raw_text,           \* what call_openai returned
    actions,            \* the list handed to run_actions
    ranExecutor,        \* run_actions was invoked in this iteration
    failAt,             \* position whose page call the browser made raise
    ops,                \* page calls of this iteration, in order
    out,                \* lines printed in this iteration, in order
    modelCalls,         \* invocations of call_openai in this iteration
    caught              \* exception caught by the except clause of this iteration

vars == <<pc, exitCause, browserClosed, playwrightStopped, apiKey, pageUrl,
          line, command, context, messages, raw_text, actions, ranExecutor,
          failAt, ops, out, modelCalls, caught>>

process == <<exitCause, browserClosed, playwrightStopped, apiKey>>
chatLocals == <<context, messages, raw_text, modelCalls>>
execLocals == <<actions, ranExecutor, failAt>>

BlankUrl == <<"about:blank">>
UsageHint == [kind |-> "Unknown command", text |-> <<>>]
ErrorLine(prefix, exc) == [kind |-> prefix, text |-> <<exc>>]

Init ==
    /\ pc = "launch"
    /\ exitCause = ""
    /\ browserClosed = FALSE
    /\ playwrightStopped = FALSE
    /\ apiKey \in BOOLEAN
    /\ pageUrl = BlankUrl
    /\ line = <<>>
    /\ command = EmptyDict
    /\ context = NoContext
    /\ messages = <<>>
    /\ raw_text = NoRaw
    /\ actions = <<>>
    /\ ranExecutor = FALSE
    /\ failAt = 0
    /\ ops = <<>>
    /\ out = <<>>
    /\ modelCalls = 0
    /\ caught = ""

\* Variant: no with block; an exception leaves main() with nothing released.
PropagateUnscoped ==
    /\ pc' = "exited"
    /\ exitCause' = "crash"
    /\ UNCHANGED <<browserClosed, playwrightStopped>>

\* An exception leaves main(): browser.close() is skipped, the with block
\* is left.
Propagate ==
    /\ pc' = "exited"
    /\ exitCause' = "crash"
    /\ playwrightStopped' = TRUE
    /\ UNCHANGED browserClosed

\* break: browser.close(), then the with block is left and main returns 0.
Break(cause) ==
    /\ pc' = "exited"
    /\ exitCause' = cause
    /\ browserClosed' = TRUE
    /\ playwrightStopped' = TRUE

\* launch, new_page and page.goto(args.start_url) before the loop.
Launch(ok) ==
    /\ pc = "launch"
    /\ IF ok
       THEN /\ pc' = "input"
            /\ pageUrl' = StartUrl
            /\ UNCHANGED <<exitCause, browserClosed, playwrightStopped>>
       ELSE /\ Propagate
            /\ UNCHANGED pageUrl
    /\ UNCHANGED <<apiKey, line, command, chatLocals, execLocals, ops, out, caught>>

\* input() raises EOFError.
InputEOF ==
    /\ pc = "input"
    /\ Break("eof")
    /\ UNCHANGED <<apiKey, pageUrl, line, command, chatLocals, execLocals,
                   ops, out, caught>>

\* int() raises in parse_manual_command, outside every try block.
ParseError(l) ==
    /\ pc = "input"
    /\ parse_manual_command(l).exc # ""
    /\ line' = l
    /\ Propagate
    /\ UNCHANGED <<apiKey, pageUrl, command, chatLocals, execLocals, ops, out,
                   caught>>

\* Variant: the empty command falls through to the usage hint.
BlankLineHint(l) ==
    /\ pc = "input"
    /\ LET r == parse_manual_command(l) IN
        /\ r.exc = ""
        /\ r.ret = EmptyDict
        /\ line' = l
        /\ command' = r.ret
    /\ out' = Append(out, UsageHint)
    /\ pc' = "loop_end"
    /\ UNCHANGED <<process, pageUrl, chatLocals, execLocals, ops, caught>>

\* `if not command: continue`
BlankLine(l) ==
    /\ pc = "input"
    /\ LET r == parse_manual_command(l) IN
        /\ r.exc = ""
        /\ r.ret = EmptyDict
        /\ line' = l
        /\ command' = r.ret
    /\ pc' = "loop_end"
    /\ UNCHANGED <<process, pageUrl, chatLocals, execLocals, ops, out, caught>>

Quit(l) ==
    /\ pc = "input"
    /\ LET r == parse_manual_command(l) IN
        /\ r.exc = ""
        /\ r.ret # EmptyDict
        /\ Get(r.ret, "type", NoneTag) = "quit"
        /\ line' = l
        /\ command' = r.ret
    /\ Break("quit")
    /\ UNCHANGED <<apiKey, pageUrl, chatLocals, execLocals, ops, out, caught>>

\* Variant: get_page_context without its try blocks; a failed read ends the
\* chat turn in the except clause of main.
ChatSnapshotUnguarded(l, titleFails, bodyFails) ==
    /\ pc = "input"
    /\ LET r == parse_manual_command(l) IN
        /\ r.exc = ""
        /\ r.ret # EmptyDict
        /\ Get(r.ret, "type", NoneTag) = "chat"
        /\ line' = l
        /\ command' = r.ret
        /\ LET ctx == get_page_context(pageUrl, titleFails, bodyFails) IN
            IF titleFails \/ bodyFails
            THEN /\ UNCHANGED <<context, messages, modelCalls>>
                 /\ caught' = PlaywrightError
                 /\ out' = Append(out, ErrorLine("Chat error", PlaywrightError))
                 /\ pc' = "loop_end"
            ELSE /\ context' = ctx
                 /\ messages' = build_prompt(Get(r.ret, "instruction", <<>>), ctx)
                 /\ modelCalls' = 1
                 /\ pc' = "call_openai"
                 /\ UNCHANGED <<out, caught>>
    /\ ops' = ContextCalls(titleFails, bodyFails)
    /\ UNCHANGED <<process, pageUrl, raw_text, execLocals>>

\* First half of handle_chat: the snapshot and the prompt; the request to
\* the model is then outstanding.
ChatSnapshot(l, titleFails, bodyFails) ==
    /\ pc = "input"
    /\ LET r == parse_manual_command(l) IN
        /\ r.exc = ""
        /\ r.ret # EmptyDict
        /\ Get(r.ret, "type", NoneTag) = "chat"
        /\ line' = l
        /\ command' = r.ret
        /\ LET ctx == get_page_context(pageUrl, titleFails, bodyFails) IN
            /\ context' = ctx
            /\ messages' = build_prompt(Get(r.ret, "instruction", <<>>), ctx)
    /\ ops' = ContextCalls(titleFails, bodyFails)
    /\ modelCalls' = 1
    /\ pc' = "call_openai"
    /\ UNCHANGED <<process, pageUrl, raw_text, execLocals, out, caught>>

\* Variant: the exception is caught without a report.
ChatExceptSilent(o, exc) ==
    /\ caught' = exc
    /\ out' = o

\* The except clause of the chat branch; o is what was printed before it.
ChatExcept(o, exc) ==
    /\ caught' = exc
    /\ out' = Append(o, ErrorLine("Chat error", exc))

\* Variant: the report of a failed manual command uses the chat prefix.
CommandExceptAsChat(o, exc) ==
    /\ caught' = exc
    /\ out' = Append(o, ErrorLine("Chat error", exc))

\* The except clause around run_actions(page, [command]).
CommandExcept(o, exc) ==
    /\ caught' = exc
    /\ out' = Append(o, ErrorLine("Command error", exc))

\* call_openai raises: no credential.
CallNoKey ==
    /\ pc = "call_openai"
    /\ ~apiKey
    /\ ChatExcept(out, "RuntimeError: OPENAI_API_KEY is not set")
    /\ pc' = "loop_end"
    /\ UNCHANGED <<process, pageUrl, line, command, context, messages,
                   raw_text, modelCalls, execLocals, ops>>

\* Variant: a failed request is sent once more before the turn gives up.
CallFailsRetry ==
    /\ pc = "call_openai"
    /\ apiKey
    /\ IF modelCalls < 2
       THEN /\ modelCalls' = modelCalls + 1
            /\ UNCHANGED <<pc, out, caught>>
       ELSE /\ ChatExcept(out, "requests.RequestException")
            /\ pc' = "loop_end"
            /\ UNCHANGED modelCalls
    /\ UNCHANGED <<process, pageUrl, line, command, context, messages,
                   raw_text, execLocals, ops>>

\* call_openai raises: the request fails or the status is not a success.
CallFails ==
    /\ pc = "call_openai"
    /\ apiKey
    /\ ChatExcept(out, "requests.RequestException")
    /\ pc' = "loop_end"
    /\ UNCHANGED <<process, pageUrl, line, command, context, messages,
                   raw_text, modelCalls, execLocals, ops>>

\* The page call at position f of the list is one the browser can make raise.
CanFailAt(st, list, f) ==
    f = 0 \/ run_actions(st, list, f).err = PlaywrightError

\* call_openai returns raw; second half of handle_chat.
CallReturns(raw, f) ==
    /\ pc = "call_openai"
    /\ apiKey
    /\ raw_text' = raw
    /\ LET d == extract_actions(raw) IN
       IF d.exc # ""
       THEN /\ f = 0
            /\ ChatExcept(out, d.exc)
            /\ UNCHANGED <<pageUrl, execLocals, ops>>
       ELSE LET st0 == ExecState(ops, out, pageUrl)
                st == run_actions(st0, d.ret, f) IN
            /\ f \in 0..Len(d.ret)
            /\ CanFailAt(st0, d.ret, f)
            /\ actions' = d.ret
            /\ ranExecutor' = TRUE
            /\ failAt' = f
            /\ ops' = st.ops
            /\ pageUrl' = st.url
            /\ IF st.err # ""
               THEN ChatExcept(st.out, st.err)
               ELSE /\ out' = st.out
                    /\ UNCHANGED caught
    /\ pc' = "loop_end"
    /\ UNCHANGED <<process, line, command, context, messages, modelCalls>>

Unknown(l) ==
    /\ pc = "input"
    /\ LET r == parse_manual_command(l) IN
        /\ r.exc = ""
        /\ r.ret # EmptyDict
        /\ Get(r.ret, "type", NoneTag) = "unknown"
        /\ line' = l
        /\ command' = r.ret
    /\ out' = Append(out, UsageHint)
    /\ pc' = "loop_end"
    /\ UNCHANGED <<process, pageUrl, chatLocals, execLocals, ops, caught>>

\* Variant: the unknown branch does not `continue`.
IsControlWithoutUnknown(cmd) == Get(cmd, "type", NoneTag) \in {"quit", "chat"}

\* The commands main handles itself, each branch ending in break or
\* continue before run_actions is reached.
IsControl(cmd) == Get(cmd, "type", NoneTag) \in {"quit", "chat", "unknown"}

\* run_actions(page, [command]) inside try / except Exception.
Manual(l, f) ==
    /\ pc = "input"
    /\ LET r == parse_manual_command(l) IN
        /\ r.exc = ""
        /\ r.ret # EmptyDict
        /\ ~IsControl(r.ret)
        /\ line' = l
        /\ command' = r.ret
        /\ LET st0 == ExecState(ops, out, pageUrl)
               st == run_actions(st0, <<r.ret>>, f) IN
            /\ CanFailAt(st0, <<r.ret>>, f)
            /\ actions' = <<r.ret>>
            /\ ranExecutor' = TRUE
            /\ failAt' = f
            /\ ops' = st.ops
            /\ pageUrl' = st.url
            /\ IF st.err # ""
               THEN CommandExcept(st.out, st.err)
               ELSE /\ out' = st.out
                    /\ UNCHANGED caught
    /\ pc' = "loop_end"
    /\ UNCHANGED <<process, chatLocals>>

\* Back to the top of `while True`: the locals of the iteration are dead.
LoopBack ==
    /\ pc = "loop_end"
    /\ pc' = "input"
    /\ line' = <<>>
    /\ command' = EmptyDict
    /\ context' = NoContext
    /\ messages' = <<>>
    /\ raw_text' = NoRaw
    /\ actions' = <<>>
    /\ ranExecutor' = FALSE
    /\ failAt' = 0
    /\ ops' = <<>>
    /\ out' = <<>>
    /\ modelCalls' = 0
    /\ caught' = ""
    /\ UNCHANGED <<process, pageUrl>>

Next ==
    \/ \E ok \in BOOLEAN : Launch(ok)
    \/ InputEOF
    \/ \E l \in Lines : ParseError(l)
    \/ \E l \in Lines : BlankLine(l)
    \/ \E l \in Lines : Quit(l)
    \/ \E l \in Lines, tf \in BOOLEAN, bf \in BOOLEAN : ChatSnapshot(l, tf, bf)
    \/ CallNoKey
    \/ CallFails
    \/ \E raw \in RawTexts, f \in 0..(MaxActions + 1) : CallReturns(raw, f)
    \/ \E l \in Lines : Unknown(l)
    \/ \E l \in Lines, f \in 0..1 : Manual(l, f)
    \/ LoopBack

Spec == Init /\ [][Next]_vars

\* The state of the session loop in the words of section 4.7.
Running == pc \in {"input", "call_openai", "loop_end"}
Terminated == pc = "exited"

TypeOK ==
    /\ pc \in {"launch", "input", "call_openai", "loop_end", "exited"}
    /\ exitCause \in {"", "quit", "eof", "crash"}
    /\ modelCalls \in 0..1
    /\ failAt \in 0..(MaxActions + 1)
    /\ Len(actions) <= MaxActions + 1

----------------------------------------------------------------------------
(* Vocabulary of the properties *)

TurnDone == pc = "loop_end"
CommandType == Get(command, "type", NoneTag)
ChatTurn == command # EmptyDict /\ CommandType = "chat"
ActionVariants == {"open", "click", "type", "wait", "screenshot", "info"}
ManualTurn == command # EmptyDict /\ CommandType \in ActionVariants

\* An element of an action list that is not one of the six action shapes.
InvalidAction(a) ==
    \/ ~IsDict(a)
    \/ Get(a, "type", NoneTag) \notin ActionVariants
    \/ a.type = "open" /\ Get(a, "url", None) \in {None, <<>>}
    \/ a.type \in {"click", "type"} /\ Get(a, "selector", None) \in {None, <<>>}

\* The page calls a valid action stands for, all returning.
ExpectedCalls(a) ==
    CASE a.type = "open" -> <<Call("goto", a.url, <<>>, 0, TRUE)>>
      [] a.type = "click" -> <<Call("click", a.selector, <<>>, 0, TRUE)>>
      [] a.type = "type" ->
            <<Call("fill", a.selector, Get(a, "text", <<>>), 0, TRUE)>>
      [] a.type = "wait" ->
            <<Call("wait_for_timeout", <<>>, <<>>, Get(a, "ms", 0), TRUE)>>
      [] a.type = "screenshot" ->
            <<Call("screenshot", Get(a, "path", DefaultPath), <<>>, 0, TRUE)>>
      [] a.type = "info" -> <<Call("title", <<>>, <<>>, 0, TRUE),
                              Call("url", <<>>, <<>>, 0, TRUE)>>

RECURSIVE CallsOfPrefix(_, _)
\* The calls of the first n actions of a list, in order.
CallsOfPrefix(list, n) ==
    IF n = 0 THEN <<>>
    ELSE CallsOfPrefix(list, n - 1) \o ExpectedCalls(list[n])

\* Position of the first action that is invalid or whose page call the
\* browser made raise; Len + 1 when there is none.
FirstFailing(list, f) ==
    LET bad == {i \in 1..Len(list) : InvalidAction(list[i]) \/ i = f}
    IN  IF bad = {} THEN Len(list) + 1
        ELSE CHOOSE i \in bad : \A j \in bad : i <= j

\* The page calls made by run_actions in this iteration: in a chat turn
\* they follow the three reads of the snapshot.
ExecCalls == IF ChatTurn THEN SubSeq(ops, 4, Len(ops)) ELSE ops

IsMutating(c) == c.op \in MutatingOps
IsOk(c) == c.ok
IsChatError(o) == o.kind = "Chat error"
IsCommandError(o) == o.kind = "Command error"

----------------------------------------------------------------------------
(* C1 *)

\* C1 (as claimed): in a chat turn whose action list has an invalid element
\* at some position, no navigate, click, fill, wait or screenshot call is
\* made in the turn, not even for the valid actions before that position.
C1_NoActionOfInvalidBatchRuns ==
    (TurnDone /\ ChatTurn /\ ranExecutor
        /\ \E k \in 1..Len(actions) : InvalidAction(actions[k]))
    => SelectSeq(ops, IsMutating) = <<>>

----------------------------------------------------------------------------
(* C2 *)

\* C2 (as claimed): the loop leaves Running only by an explicit quit/exit
\* line or by end-of-input; after every other line and every failure it is
\* still Running.
C2_LeavesRunningOnlyByQuitOrEof ==
    [][(Running /\ ~Running') => exitCause' \in {"quit", "eof"}]_vars

----------------------------------------------------------------------------
(* C3 *)

\* C3: run_actions applies the actions in list order and stops at the first
\* failing one: the calls that took effect are exactly those of the actions
\* before the first failing action, in order; the failing action adds at
\* most its one raising call; its successors add none; and an applied
\* navigation is not undone.
C3_ExecutorHaltsAtFirstFailure ==
    (TurnDone /\ ranExecutor) =>
        LET k == FirstFailing(actions, failAt)
            applied == CallsOfPrefix(actions, k - 1)
            gotos == SelectSeq(applied, LAMBDA c : c.op = "goto")
        IN  /\ SelectSeq(ExecCalls, IsOk) = applied
            /\ SubSeq(ExecCalls, 1, Len(applied)) = applied
            /\ Len(ExecCalls) <= Len(applied) + 1
            /\ (Len(ExecCalls) = Len(applied) + 1) <=> (k = failAt)
            /\ (k <= Len(actions)) <=> (caught # "")
            /\ gotos # <<>> => pageUrl = gotos[Len(gotos)].a

\* A three-action batch whose second action fails after the first took
\* effect.
C3_Witness ==
    /\ TurnDone /\ ranExecutor
    /\ Len(actions) = 3
    /\ FirstFailing(actions, failAt) = 2
    /\ failAt = 2
    /\ Len(ExecCalls) = 2
    /\ ExecCalls[1].ok /\ ~ExecCalls[2].ok

----------------------------------------------------------------------------
(* C4 *)

\* What a stage of the chat pipeline needs in order not to raise.
ReplyArrived == raw_text # NoRaw
ReplyDecodes == raw_text.kind = "object" /\ raw_text.hasActions /\ raw_text.isList
ExecutionFails == FirstFailing(raw_text.items, failAt) <= Len(raw_text.items)
ChatStageFailed ==
    \/ ~ReplyArrived
    \/ ~ReplyDecodes
    \/ ExecutionFails

\* C4: a chat turn in which the model call, the decoding or the execution
\* raises leaves the loop Running and prints exactly one "Chat error"
\* report (failed reads of the snapshot are replaced by "" inside the
\* snapshot and are not a failure of the turn).
C4_FailedChatTurnReportsOnce ==
    (TurnDone /\ ChatTurn /\ ChatStageFailed) =>
        /\ Running
        /\ Len(SelectSeq(out, IsChatError)) = 1
        /\ Len(SelectSeq(out, IsCommandError)) = 0

\* The model call failed in a chat turn.
C4_Witness ==
    /\ TurnDone /\ ChatTurn /\ apiKey
    /\ ~ReplyArrived
    /\ modelCalls = 1
    /\ Len(out) = 1 /\ IsChatError(out[1])

----------------------------------------------------------------------------
(* C5 *)

\* C5: when a line parses to an action and executing it fails, exactly one
\* "Command error" report is printed, at most one page call was attempted
\* for the line, and the loop stays Running.
C5_FailedManualCommandReportsOnce ==
    (TurnDone /\ ManualTurn /\ (failAt # 0 \/ InvalidAction(command))) =>
        /\ Running
        /\ out = <<ErrorLine("Command error", caught)>>
        /\ caught # ""
        /\ Len(ops) <= 1

\* A manual click whose page call raised.
C5_Witness ==
    /\ TurnDone /\ ManualTurn
    /\ CommandType = "click"
    /\ failAt = 1
    /\ Len(ops) = 1 /\ ~ops[1].ok

----------------------------------------------------------------------------
(* C6 *)

\* C6 (as claimed): a reply that is JSON but is not an object with a list
\* under "actions" (key missing, value not a list, or top-level value not
\* an object) fails to decode with the SchemaViolation error, and no action
\* executes.
C6_NonConformingJsonIsSchemaViolation ==
    (TurnDone /\ ChatTurn /\ ReplyArrived
        /\ raw_text.kind # "notjson" /\ ~ReplyDecodes)
    => /\ caught = SchemaViolation
       /\ ~ranExecutor
       /\ ExecCalls = <<>>

----------------------------------------------------------------------------
(* C7 *)

\* C7: whenever the loop has terminated the browser session is released:
\* by browser.close() and the end of the with block after quit or
\* end-of-input, and by the end of the with block when an exception leaves
\* main().
C7_TerminatedReleasesSession ==
    Terminated =>
        /\ playwrightStopped
        /\ exitCause \in {"quit", "eof"} => browserClosed

\* Termination by an exception raised inside the loop.
C7_Witness ==
    /\ Terminated
    /\ exitCause = "crash"
    /\ Split(line) # <<>>
    /\ playwrightStopped

----------------------------------------------------------------------------
(* C8 *)

\* The reply is an object whose "actions" is one valid open action.
SingleOpenReply ==
    /\ ReplyArrived /\ ReplyDecodes
    /\ Len(raw_text.items) = 1
    /\ ~InvalidAction(raw_text.items[1])
    /\ raw_text.items[1].type = "open"

\* C8 (as claimed): a chat turn whose reply is a single valid open action
\* makes exactly one navigate call with that url and no other page call
\* during the turn.
C8_SingleOpenIsTheOnlyCall ==
    (TurnDone /\ ChatTurn /\ SingleOpenReply) =>
        /\ Len(ops) = 1
        /\ ops[1].op = "goto"
        /\ ops[1].a = raw_text.items[1].url

\* C8 (amended): such a turn makes exactly one navigate call, with that
\* url, and no other navigate, click, fill, wait or screenshot call; the
\* only other page calls of the turn are the three reads of the context
\* snapshot (title, body text, url), made before the navigate call.
C8_SingleOpenAfterSnapshotReads ==
    (TurnDone /\ ChatTurn /\ SingleOpenReply) =>
        /\ Len(ops) = 4
        /\ <<ops[1].op, ops[2].op, ops[3].op>> = <<"title", "inner_text", "url">>
        /\ ops[4].op = "goto"
        /\ ops[4].a = raw_text.items[1].url
        /\ ops[4].ok => pageUrl = raw_text.items[1].url

\* Such a turn, with the navigation done.
C8_Witness ==
    /\ TurnDone /\ ChatTurn /\ SingleOpenReply
    /\ ops[4].ok
    /\ pageUrl = <<"u1">>
    /\ context.url = StartUrl

----------------------------------------------------------------------------
(* C9 *)

\* The reply is an object with a non-empty "actions" array of valid shapes.
ValidReply ==
    /\ ReplyArrived /\ ReplyDecodes
    /\ raw_text.items # <<>>
    /\ \A i \in 1..Len(raw_text.items) : ~InvalidAction(raw_text.items[i])

\* C9: for a reply with a non-empty array of valid action shapes, the
\* decoded list has the length of the array, keeps its order, and each
\* element has the type tag of the array element at the same index.
C9_DecoderPreservesLengthOrderAndTags ==
    (TurnDone /\ ChatTurn /\ ValidReply) =>
        /\ ranExecutor
        /\ Len(actions) = Len(raw_text.items)
        /\ \A i \in 1..Len(actions) :
              /\ IsDict(actions[i])
              /\ actions[i].type = raw_text.items[i].type
              /\ actions[i] = raw_text.items[i]

\* A valid reply of two actions of different types.
C9_Witness ==
    /\ TurnDone /\ ChatTurn /\ ValidReply
    /\ Len(actions) = 2
    /\ actions[1].type = "open" /\ actions[2].type = "wait"

----------------------------------------------------------------------------
(* C10 *)

Verbs == {"open", "click", "type", "wait", "screenshot", "info", "chat",
          "quit", "exit"}

\* The line has a first token and it is not a command with its required
\* tokens.
LacksTokensOrVerb(l) ==
    LET parts == Split(l) IN
    /\ parts # <<>>
    /\ \/ parts[1] \notin Verbs
       \/ parts[1] \in {"open", "click", "wait", "screenshot", "chat"}
            /\ Len(parts) < 2
       \/ parts[1] = "type" /\ Len(parts) < 3

LineRead == pc \in {"call_openai", "loop_end", "exited"} /\ exitCause # "eof"
            /\ line # <<>>

\* C10: a line whose first token is a recognized verb without its required
\* tokens, or is not a recognized verb, parses to Unknown carrying the
\* original line; and no parsed action lacks a required field.
C10_ShortOrUnrecognizedLineIsUnknown ==
    /\ (LineRead /\ LacksTokensOrVerb(line)) =>
          /\ command = [type |-> "unknown", raw |-> line]
          /\ TurnDone
    /\ (command # EmptyDict) =>
          /\ CommandType = "open" => Truthy(Get(command, "url", None))
          /\ CommandType = "click" => Truthy(Get(command, "selector", None))
          /\ CommandType = "type" =>
                /\ Truthy(Get(command, "selector", None))
                /\ "text" \in DOMAIN command
          /\ CommandType = "wait" => "ms" \in DOMAIN command
          /\ CommandType = "screenshot" => Truthy(Get(command, "path", None))

\* "type" with a selector but no text, typed with extra whitespace.
C10_Witness ==
    /\ TurnDone
    /\ Split(line) = <<"type", "u1">>
    /\ line # Join(Split(line))
    /\ command = [type |-> "unknown", raw |-> line]
    /\ out = <<UsageHint>>

----------------------------------------------------------------------------
(* C11 *)

\* The line is "wait" followed by a token that is not an integer.
WaitWithoutInteger(l) ==
    LET parts == Split(l) IN
    /\ Len(parts) >= 2
    /\ parts[1] = "wait"
    /\ ~IsInt(parts[2])

\* C11: a wait line whose second token is not an integer is a parse error
\* that reaches the caller of the parser: the line yields no command at
\* all, in particular no wait of 0 milliseconds, the executor is not
\* invoked and no wait call is made on the page.
C11_WaitWithoutIntegerIsParseError ==
    (LineRead /\ WaitWithoutInteger(line)) =>
        /\ exitCause = "crash"
        /\ command = EmptyDict
        /\ ~ranExecutor
        /\ actions = <<>>
        /\ ops = <<>>

\* The line "wait u1" has been read.
C11_Witness ==
    /\ LineRead
    /\ Split(line) = <<"wait", "u1">>
    /\ exitCause = "crash"

----------------------------------------------------------------------------
(* C12 *)

\* A chat turn whose snapshot has read the body text of the page.
BodyWasRead ==
    /\ pc \in {"call_openai", "loop_end"}
    /\ ChatTurn
    /\ ops[2].op = "inner_text" /\ ops[2].ok

\* C12 (as claimed): with CRLF replaced by LF before the length is
\* measured, a body longer than 5000 characters gives its first 5000
\* characters followed by the marker, and a body of at most 5000 characters
\* is passed through unchanged, without marker.
C12_BodyTruncatedOrUnchanged ==
    BodyWasRead =>
        LET body == ReplaceCrlf(PageBody(context.url)) IN
        context.body = IF CharLen(body) > 5000
                       THEN Take(body, 5000) \o TruncationMarker
                       ELSE body

\* C12 (amended): the text measured is the body with leading and trailing
\* whitespace stripped and then CRLF replaced by LF; when it is longer than
\* 5000 characters the excerpt is its first 5000 characters followed by the
\* marker, otherwise the excerpt is that text, without marker.
C12_StrippedBodyTruncatedOrKept ==
    BodyWasRead =>
        LET body == ReplaceCrlf(Strip(PageBody(context.url))) IN
        /\ CharLen(body) > 5000 =>
              /\ context.body = Take(body, 5000) \o TruncationMarker
              /\ CharLen(context.body) = 5000 + CharLen(TruncationMarker)
        /\ CharLen(body) <= 5000 => context.body = body

\* A body of 5003 characters with one CRLF among its first 5001: the
\* excerpt is 4999 characters, the LF, and the marker.
C12_Witness ==
    /\ BodyWasRead
    /\ CharLen(PageBody(context.url)) = 5003
    /\ context.body = <<TextRun("x", 4999), TextRun("\n", 1)>> \o TruncationMarker

----------------------------------------------------------------------------
(* C13 *)

\* The text t is the tokens toks with one space between neighbours.
SingleSpaced(t, toks) ==
    /\ toks # <<>>
    /\ Len(t) = 2 * Len(toks) - 1
    /\ \A i \in 1..Len(t) :
          t[i] = IF i % 2 = 1 THEN toks[(i + 1) \div 2] ELSE " "

\* C13: a "type" line of at least 3 tokens parses to Type whose selector is
\* exactly the second token and whose text is the remaining tokens joined
\* by single spaces; a "click" line of at least 2 tokens parses to Click
\* whose selector is all remaining tokens joined by single spaces.
C13_TypeAndClickFields ==
    LET parts == Split(line) IN
    /\ (LineRead /\ Len(parts) >= 3 /\ parts[1] = "type") =>
          /\ DOMAIN command = {"type", "selector", "text"}
          /\ command.type = "type"
          /\ command.selector = <<parts[2]>>
          /\ SingleSpaced(command.text, SubSeq(parts, 3, Len(parts)))
    /\ (LineRead /\ Len(parts) >= 2 /\ parts[1] = "click") =>
          /\ DOMAIN command = {"type", "selector"}
          /\ command.type = "click"
          /\ SingleSpaced(command.selector, SubSeq(parts, 2, Len(parts)))

\* "type u1 5 u1" typed with extra whitespace: selector "u1", text "5 u1",
\* and the page is filled with them.
C13_Witness ==
    /\ TurnDone
    /\ Split(line) = <<"type", "u1", "5", "u1">>
    /\ line # Join(Split(line))
    /\ command.selector = <<"u1">>
    /\ command.text = <<"5", " ", "u1">>
    /\ ops = <<Call("fill", <<"u1">>, <<"5", " ", "u1">>, 0, TRUE)>>

----------------------------------------------------------------------------
(* C14 *)

\* C14 (as claimed): every wait call made on the page has a duration of at
\* least 0 milliseconds, whether the wait comes from a manual line or from
\* the model.
C14_WaitIsNeverNegative ==
    \A i \in 1..Len(ops) :
        ops[i].op = "wait_for_timeout" => ops[i].ms >= 0

----------------------------------------------------------------------------
(* C15 *)

\* C15 (as claimed): a line parses to Info only when it is the single token
\* "info"; "info" followed by further tokens does not parse to Info.
C15_InfoOnlyFromSingleToken ==
    (LineRead /\ command # EmptyDict /\ CommandType = "info")
    => Split(line) = <<"info">>

----------------------------------------------------------------------------
(* C16 *)

\* C16: the executor is never invoked on a control command: a line that
\* parses to Quit, Chat, Unknown or Empty is handled without run_actions
\* receiving that command; from the manual path only the six action
\* variants reach it, and in a chat turn it receives the list decoded from
\* the model's reply.
C16_ExecutorNeverSeesControlCommand ==
    /\ (ranExecutor /\ ~ChatTurn) =>
          /\ actions = <<command>>
          /\ CommandType \in ActionVariants
    /\ (LineRead /\ (command = EmptyDict \/ CommandType \in {"quit", "unknown"})) =>
          /\ ~ranExecutor
          /\ actions = <<>>
          /\ ops = <<>>
    /\ ChatTurn =>
          IF ranExecutor
          THEN ReplyArrived /\ ReplyDecodes /\ actions = raw_text.items
          ELSE actions = <<>>

\* The unrecognized line "foo u1" has been handled.
C16_Witness ==
    /\ TurnDone
    /\ Split(line) = <<"foo", "u1">>
    /\ CommandType = "unknown"
    /\ ~ranExecutor

----------------------------------------------------------------------------
(* C17 *)

\* A chat turn, from its snapshot on.
InChatTurn == pc \in {"call_openai", "loop_end"} /\ ChatTurn

\* C17: when reading the title or the body text fails during the snapshot
\* of a chat turn, the snapshot has "" in its place and the turn goes on:
\* the model is called, and a "Chat error" is reported only when the model
\* call, the decoding or the execution fails; the snapshot makes only read
\* calls on the page and leaves its url alone.
C17_SnapshotSwallowsReadFailures ==
    InChatTurn =>
        /\ Len(ops) >= 3
        /\ <<ops[1].op, ops[2].op, ops[3].op>> = <<"title", "inner_text", "url">>
        /\ ~ops[1].ok => context.title = <<>>
        /\ ~ops[2].ok => context.body = <<>>
        /\ ops[1].ok => context.title = PageTitle(context.url)
        /\ modelCalls = 1
        /\ pc = "call_openai" =>
              /\ Len(ops) = 3
              /\ out = <<>> /\ caught = ""
              /\ pageUrl = context.url
        /\ TurnDone =>
              (SelectSeq(out, IsChatError) # <<>> <=> ChatStageFailed)

\* Both reads failed, and the turn ran the model's actions without error.
C17_Witness ==
    /\ TurnDone /\ ChatTurn
    /\ ~ops[1].ok /\ ~ops[2].ok
    /\ context.title = <<>> /\ context.body = <<>>
    /\ ranExecutor /\ Len(actions) = 2
    /\ caught = "" /\ SelectSeq(out, IsChatError) = <<>>

----------------------------------------------------------------------------
(* C18 *)

\* C18: in one chat turn the model client is called exactly once; the call
\* is made after the snapshot and before any navigate, click, fill, wait or
\* screenshot call; and when the call fails the turn makes none of those.
C18_ModelCalledOnceBeforeAnyMutation ==
    /\ InChatTurn => modelCalls = 1
    /\ (Running /\ ~InChatTurn) => modelCalls = 0
    /\ pc = "call_openai" =>
          /\ context # NoContext
          /\ Len(ops) = 3
          /\ SelectSeq(ops, IsMutating) = <<>>
    /\ (TurnDone /\ ChatTurn /\ ~ReplyArrived) =>
          /\ caught # ""
          /\ ~ranExecutor
          /\ SelectSeq(ops, IsMutating) = <<>>
          /\ pageUrl = context.url

\* A chat turn without credential: one call, which raised, and nothing done
\* to the page.
C18_Witness ==
    /\ TurnDone /\ ChatTurn /\ ~apiKey
    /\ modelCalls = 1
    /\ caught = "RuntimeError: OPENAI_API_KEY is not set"
    /\ Len(ops) = 3

----------------------------------------------------------------------------
(* C19 *)

\* A line has been read and parsed in the current iteration.
InTurn == pc \in {"call_openai", "loop_end"}

\* Nothing was done for the line: no page call, no model call, no snapshot,
\* no exception caught.
NothingDone ==
    /\ ops = <<>>
    /\ modelCalls = 0
    /\ context = NoContext
    /\ actions = <<>>
    /\ ~ranExecutor
    /\ caught = ""

\* C19: a line that parses to Empty or Unknown causes no page call and no
\* model call and leaves the loop Running; Empty prints nothing and Unknown
\* prints exactly the usage hint.
C19_EmptyAndUnknownOnlyPrint ==
    /\ (InTurn /\ Split(line) = <<>>) => command = EmptyDict
    /\ (InTurn /\ command = EmptyDict) =>
          /\ Split(line) = <<>>
          /\ TurnDone
          /\ NothingDone
          /\ out = <<>>
    /\ (InTurn /\ command # EmptyDict /\ CommandType = "unknown") =>
          /\ LacksTokensOrVerb(line)
          /\ TurnDone
          /\ NothingDone
          /\ out = <<UsageHint>>
    /\ (LineRead /\ LacksTokensOrVerb(line)) => Running
    /\ (pc = "exited" /\ exitCause = "quit") => CommandType = "quit"

\* A line of whitespace only has been read: nothing printed, nothing done.
C19_Witness ==
    /\ TurnDone
    /\ line = <<" ">>
    /\ command = EmptyDict
    /\ out = <<>>
    /\ ops = <<>>

----------------------------------------------------------------------------
(* C20 *)

\* The verbs main handles itself when they are typed at the prompt.
ControlVerbs == {"quit", "exit", "chat", "unknown"}

IsControlAction(a) == IsDict(a) /\ Get(a, "type", NoneTag) \in ControlVerbs

\* C20: an element of the model's action list whose type is quit, exit, chat
\* or unknown does not end the loop and causes no further model call; when
\* the executor reaches it, it raises the unknown-action-type error, which
\* is printed as the one Chat error of the turn, and nothing after it runs.
C20_ControlVerbFromModelIsRejected ==
    \A k \in 1..Len(actions) :
        (TurnDone /\ ChatTurn /\ ranExecutor /\ IsControlAction(actions[k])) =>
            /\ Running
            /\ exitCause = ""
            /\ ~browserClosed
            /\ modelCalls = 1
            /\ Len(SelectSeq(out, IsChatError)) = 1
            /\ FirstFailing(actions, failAt) <= k
            /\ FirstFailing(actions, failAt) = k =>
                  /\ caught = "ValueError: Unknown action type: " \o actions[k].type
                  /\ out[Len(out)] = ErrorLine("Chat error", caught)
                  /\ ExecCalls = CallsOfPrefix(actions, k - 1)

\* The model answered with an open and then a chat action: the page was
\* navigated, the chat action was rejected, and the loop goes on.
C20_Witness ==
    /\ TurnDone /\ ChatTurn
    /\ actions = <<[type |-> "open", url |-> <<"u1">>],
                   [type |-> "chat", instruction |-> <<"u1">>]>>
    /\ caught = "ValueError: Unknown action type: chat"
    /\ pageUrl = <<"u1">>
    /\ modelCalls = 1

====
